---------------------------- MODULE Spec2Model ----------------------------
(***************************************************************************)
(* sagacity: a directory-driven catalogue of host inventories.             *)
(*                                                                         *)
(* Two parts of the program are modelled:                                  *)
(*   - host.go: HostInfo.Execute, the category / host selection            *)
(*     (specification SpecHost);                                           *)
(*   - repo.go: NewRepo, Repo.walk, loadInfo, loadSubrepo and LoadRepos,   *)
(*     the concurrent build of the repository tree (SpecBuild, SpecLoad).  *)
(*                                                                         *)
(* Go strings are sequences of bytes, written here as sequences of their   *)
(* ASCII codes, so that prefix tests, sorting and number parsing are       *)
(* computed as the Go library computes them.                               *)
(***************************************************************************)
EXTENDS Integers, Sequences, FiniteSets, TLC

VARIABLES
    \* ---- host.go: one run of HostInfo.Execute
    hdoc,       \* h.Types of the loaded document: category name -> Category
    hargs,      \* c.Args() of the run
    hpc,        \* "ready" before Execute, "done" after it
    acted,      \* the ssh commands run, in order: [FQDN, extra]
    out,        \* the lines printed on stdout / the log
    exit,       \* how the run ended
    hcat,       \* cc.Name of the host command that ran (MakeCLI), "" before
    hostp,      \* `var host *Host` of the host command: nil until assigned
    \* ---- repo.go: one run of NewRepo or of LoadRepos
    fs,         \* the directory tree: path -> kind of the entry there
    npc,        \* per path: where the NewRepo(path) call and its caller stand
    todo,       \* per node: the paths filepath.Walk has still to visit, in order
    wgc,        \* per node: the counter of r.wg
    infoMap,    \* per node: r.Info
    controlMap, \* per node: r.Control
    subMap,     \* per node: r.Subrepos, key -> root of the child node
    tpc,        \* per path: where the loadInfo(path) goroutine stands
    raced,      \* the goroutines whose map write overlapped another write
    fatal,      \* the Go run time has ended the process
    logs,       \* what was logged
    mpc,        \* where LoadRepos stands ("direct": NewRepo is called alone)
    mtodo,      \* LoadRepos: the directory entries still to loop over
    mwg,        \* LoadRepos: the counter of wg
    repos,      \* LoadRepos: the map returned, key -> root of the node
    \* ---- repo.go: one run of Repo.Execute on the node NewRepo returned
    rargs,      \* c.Args()[1:], the tokens after the one naming the repository
    rpc,        \* "ready" before Execute, "done" after it
    invoked,    \* the documents whose Execute was called, in order
    listing     \* the lines printed: [blue, key]

hostVars == <<hdoc, hargs, hpc, acted, out, exit, hcat, hostp>>

buildVars ==
    <<fs, npc, todo, wgc, infoMap, controlMap, subMap, tpc, raced, fatal,
      logs, mpc, mtodo, mwg, repos>>

resolveVars == <<rargs, rpc, invoked, listing>>

vars == <<hostVars, buildVars, resolveVars>>

-----------------------------------------------------------------------------
(* Bounds *)

\* Most hosts in one category.
MaxHosts == 2

\* Most command line tokens left when HostInfo.Execute is reached.
MaxArgs == 3

\* Most command line tokens given to Repo.Execute after the repository's own.
MaxTokens == 2

-----------------------------------------------------------------------------
(* Go strings *)

\* ".", "_", ".yaml", ", " and "" as byte strings.
StrDot == <<46>>
StrUnderscore == <<95>>
StrYaml == <<46, 121, 97, 109, 108>>
StrCommaSpace == <<44, 32>>
StrEmpty == <<>>

\* strings.HasPrefix(s, p)
HasPrefix(s, p) ==
    /\ Len(s) >= Len(p)
    /\ SubSeq(s, 1, Len(p)) = p

\* strings.HasSuffix(s, p)
HasSuffix(s, p) ==
    /\ Len(s) >= Len(p)
    /\ SubSeq(s, Len(s) - Len(p) + 1, Len(s)) = p

\* Go's s < t on strings: byte-wise lexicographic order.
RECURSIVE StrLess(_, _)
StrLess(s, t) ==
    IF t = <<>> THEN FALSE
    ELSE IF s = <<>> THEN TRUE
    ELSE IF s[1] # t[1] THEN s[1] < t[1]
    ELSE StrLess(Tail(s), Tail(t))

\* Insert x into the sorted sequence q (one step of the sort).
RECURSIVE InsertSorted(_, _)
InsertSorted(x, q) ==
    IF q = <<>> THEN <<x>>
    ELSE IF StrLess(q[1], x) THEN <<q[1]>> \o InsertSorted(x, Tail(q))
    ELSE <<x>> \o q

\* sort.Strings(keys): the keys in increasing order.
RECURSIVE SortStrings(_)
SortStrings(keys) ==
    IF keys = <<>> THEN <<>>
    ELSE InsertSorted(keys[1], SortStrings(Tail(keys)))

\* strings.Join(a, sep)
RECURSIVE StringsJoin(_, _)
StringsJoin(a, sep) ==
    IF a = <<>> THEN <<>>
    ELSE IF Len(a) = 1 THEN a[1]
    ELSE a[1] \o sep \o StringsJoin(Tail(a), sep)

\* The value of the decimal digits ds read after the value n.
RECURSIVE AtoiDigits(_, _)
AtoiDigits(ds, n) ==
    IF ds = <<>> THEN [err |-> FALSE, val |-> n]
    ELSE IF ds[1] < 48 \/ ds[1] > 57 THEN [err |-> TRUE, val |-> 0]
    ELSE AtoiDigits(Tail(ds), n * 10 + (ds[1] - 48))

\* strconv.Atoi(s): an optional sign, then one or more decimal digits; anything
\* else is a syntax error.  (The tokens of the model are far from int's range.)
AtoiIgnoringErrors(s) ==
    LET signed == s # <<>> /\ s[1] \in {43, 45}
        ds     == IF signed THEN Tail(s) ELSE s
        r      == AtoiDigits(ds, 0)
    IN  IF ds = <<>> \/ r.err THEN [err |-> FALSE, val |-> 0]
        ELSE [err |-> FALSE, val |-> IF s[1] = 45 THEN 0 - r.val ELSE r.val]

Atoi(s) ==
    LET signed == s # <<>> /\ s[1] \in {43, 45}
        ds     == IF signed THEN Tail(s) ELSE s
        r      == AtoiDigits(ds, 0)
    IN  IF ds = <<>> \/ r.err THEN [err |-> TRUE, val |-> 0]
        ELSE [err |-> FALSE, val |-> IF s[1] = 45 THEN 0 - r.val ELSE r.val]

\* All orders in which the elements of the finite set S can be listed: the
\* orders in which Go may iterate over a map with key set S.
Orders(S) ==
    {q \in [1..Cardinality(S) -> S] : \A i, j \in DOMAIN q : i # j => q[i] # q[j]}

-----------------------------------------------------------------------------
(* host.go: the record model *)

\* The FQDN of the host declared at position i of a category: "h1", "h2", ...
\* (FQDNs are unique within a category.)
HostName(i) == <<104, 48 + i>>

\* Sequences over S of length at most n.
SeqUpTo(S, n) == UNION {[1..k -> S] : k \in 0..n}

\* type Host: the FQDN and the primary flag (Summary and Kind are only ever
\* printed).
HostSeqs ==
    {[i \in 1..Len(ps) |-> [FQDN |-> HostName(i), Primary |-> ps[i]]] :
        ps \in SeqUpTo(BOOLEAN, MaxHosts)}

\* type Category: the ordered hosts (Summary is only ever printed; the
\* category's own Primary flag is read by HostType.PrimaryHost alone).
Categories == [Hosts : HostSeqs]

\* The category names of the model: "A", "a".
CatNames == {<<65>>, <<97>>}

\* type HostType map[string]Category
HostTypes == UNION {[K -> Categories] : K \in SUBSET CatNames}

\* The command line tokens of the model:
\* "", "A", "a", "b", "0", "1", "2", "-1", "+1", "01", "1a", "-".
Tokens ==
    {<<>>, <<65>>, <<97>>, <<98>>, <<48>>, <<49>>, <<50>>, <<45, 49>>,
     <<43, 49>>, <<48, 49>>, <<49, 97>>, <<45>>}

\* The tokens that follow the second one: "0", "a".
ExtraTokens == {<<48>>, <<97>>}

\* c.Args(): up to two tokens of Tokens, then tokens of ExtraTokens.
ArgSeqs ==
    SeqUpTo(Tokens, 2)
    \cup {a \o b : a \in [1..2 -> Tokens],
                   b \in SeqUpTo(ExtraTokens, MaxArgs - 2) \ {<<>>}}

\* Category.PrimaryHost: the first host with the flag, else Hosts[0]; Hosts[0]
\* of an empty list is an index out of range, a run-time panic.
RECURSIVE FirstPrimary(_, _)
FirstPrimary(hosts, i) ==
    IF i > Len(hosts) THEN 0
    ELSE IF hosts[i].Primary THEN i
    ELSE FirstPrimary(hosts, i + 1)

PrimaryHostAlwaysFirst(c) ==
    IF Len(c.Hosts) = 0 THEN [panic |-> TRUE]
    ELSE [panic |-> FALSE, host |-> c.Hosts[1]]

PrimaryHost(c) ==
    LET i == FirstPrimary(c.Hosts, 1)
    IN  IF i # 0 THEN [panic |-> FALSE, host |-> c.Hosts[i]]
        ELSE IF Len(c.Hosts) = 0 THEN [panic |-> TRUE]
        ELSE [panic |-> FALSE, host |-> c.Hosts[1]]

\* Category.GetHost(fqdn): a pointer to (a copy of) the first host with that
\* FQDN; the named result h is never assigned otherwise, so it is nil.
RECURSIVE FirstNamed(_, _, _)
FirstNamed(hosts, fqdn, i) ==
    IF i > Len(hosts) THEN 0
    ELSE IF hosts[i].FQDN = fqdn THEN i
    ELSE FirstNamed(hosts, fqdn, i + 1)

GetHost(c, fqdn) ==
    LET i == FirstNamed(c.Hosts, fqdn, 1)
    IN  IF i # 0 THEN [nil |-> FALSE, val |-> c.Hosts[i]]
        ELSE [nil |-> TRUE]

\* Host.hasHost on a *Host: h.FQDN of a nil pointer is a run-time panic.
hasHost(h) ==
    IF h.nil THEN "panic"
    ELSE IF h.val.FQDN # StrEmpty THEN "true" ELSE "false"

\* HostType.List over the map iteration order `order`: the keys, sorted.
HostTypeListUnsorted(order) == order

HostTypeList(order) == SortStrings(order)

\* Host.Execute(extra...): run ssh on the host; a failing command is fatal.
HostExecute(host, extra, sshOK) ==
    [acted |-> <<[FQDN |-> host.FQDN, extra |-> extra]>>,
     out   |-> IF sshOK THEN <<>> ELSE <<[msg |-> "ssh command failed: ", arg |-> <<>>]>>,
     exit  |-> IF sshOK THEN "returned" ELSE "fatal"]

\* HostType.PrintType: every category in sorted order with its hosts.
RECURSIVE PrintHosts(_, _)
PrintHosts(hosts, x) ==
    IF x > Len(hosts) THEN <<>>
    ELSE <<[msg |-> "host", arg |-> hosts[x].FQDN, index |-> x - 1,
            primary |-> hosts[x].Primary]>>
         \o PrintHosts(hosts, x + 1)

RECURSIVE PrintType(_, _)
PrintType(h, keys) ==
    IF keys = <<>> THEN <<>>
    ELSE <<[msg |-> "type", arg |-> keys[1]]>>
         \o PrintHosts(h[keys[1]].Hosts, 1)
         \o PrintType(h, Tail(keys))

\* HostInfo.Execute on the tokens args, with `order` the iteration order of
\* h.Types and sshOK the outcome of the ssh command.
ExecuteResult(h, args, order, sshOK) ==
    LET quiet == [acted |-> <<>>, out |-> <<>>, exit |-> "returned"]
    IN
    IF Len(args) = 0 THEN
        [quiet EXCEPT !.out = PrintType(h, HostTypeList(order))]
    ELSE IF Len(args) \in {1, 2} THEN
        LET t == args[1] IN
        IF t \in DOMAIN h THEN
            LET cat == h[t] IN
            IF Len(args) = 1 THEN
                LET p == PrimaryHost(cat) IN
                IF p.panic THEN [quiet EXCEPT !.exit = "panic"]
                ELSE HostExecute(p.host, <<StrEmpty>>, sshOK)
            ELSE
                LET x == Atoi(args[2]) IN
                IF x.err THEN
                    [quiet EXCEPT !.out = <<[msg |-> "Non-integer argument:", arg |-> args[2]]>>,
                                  !.exit = "fatal"]
                ELSE IF x.val < 0 \/ x.val >= Len(cat.Hosts) THEN
                    [quiet EXCEPT !.exit = "panic"]
                ELSE HostExecute(cat.Hosts[x.val + 1], <<StrEmpty>>, sshOK)
        ELSE
            [quiet EXCEPT !.out = <<[msg |-> "No such type:", arg |-> t],
                                    [msg |-> "Choices are: ",
                                     arg |-> StringsJoin(HostTypeList(order), StrCommaSpace)]>>,
                          !.exit = "exit1"]
    ELSE quiet

\* The action of a host command built by HostInfo.MakeCLI for the category
\* cat: without arguments the primary host, else the host GetHost finds for
\* the first argument; then host.Execute(""), which reads h.FQDN.
HostCommandResult(cat, args, sshOK) ==
    LET quiet == [acted |-> <<>>, out |-> <<>>, exit |-> "returned"]
        p     == PrimaryHost(cat)
        ptr   == IF Len(args) = 0
                 THEN IF p.panic THEN [nil |-> TRUE] ELSE [nil |-> FALSE, val |-> p.host]
                 ELSE GetHost(cat, args[1])
    IN  IF Len(args) = 0 /\ p.panic
        THEN [res |-> [quiet EXCEPT !.exit = "panic"], ptr |-> [nil |-> TRUE]]
        ELSE IF ptr.nil
        THEN [res |-> [quiet EXCEPT !.exit = "panic"], ptr |-> ptr]
        ELSE [res |-> HostExecute(ptr.val, <<StrEmpty>>, sshOK), ptr |-> ptr]

\* The hosts of the documents GetHost is run on: FQDNs "h1" and "h2", which
\* may repeat within a category.
LookupNames == {HostName(1), HostName(2)}

LookupHostSeqs == SeqUpTo([FQDN : LookupNames, Primary : BOOLEAN], MaxHosts)

LookupTypes ==
    UNION {[K -> [Hosts : LookupHostSeqs]] : K \in (SUBSET CatNames) \ {{}}}

\* The arguments of a host command: none, or one of "h1", "h2", "h3", "".
LookupArgs == SeqUpTo(LookupNames \cup {HostName(3), StrEmpty}, 1)

-----------------------------------------------------------------------------
(* repo.go: paths and the directory tree *)

\* The file names of the model.
NameP == "p"
NameR == "r"
NameS == "s"
NameQ == "q"
NameU == "u"
NameDotG == ".g"
NameDotH == ".h.yaml"
NameRepo == "_repo.yaml"
NameA == "a.yaml"
NameB == "b.yaml"
NameC == "c.yaml"
NameF == "f.yaml"
NameSY == "s.yaml"

\* A file name as the Go string it is: its bytes.
Bytes(name) ==
    CASE name = NameP -> <<112>>
      [] name = NameR -> <<114>>
      [] name = NameS -> <<115>>
      [] name = NameQ -> <<113>>
      [] name = NameU -> <<117>>
      [] name = NameDotG -> <<46, 103>>
      [] name = NameDotH -> <<46, 104>> \o StrYaml
      [] name = NameRepo -> <<95, 114, 101, 112, 111>> \o StrYaml
      [] name = NameA -> <<97>> \o StrYaml
      [] name = NameB -> <<98>> \o StrYaml
      [] name = NameC -> <<99>> \o StrYaml
      [] name = NameF -> <<102>> \o StrYaml
      [] name = NameSY -> <<115>> \o StrYaml

\* A path is the sequence of its components; filepath.Join(p, name).
Join(p, name) == Append(p, name)

\* The directory a path lies in.
Dir(p) == SubSeq(p, 1, Len(p) - 1)

\* The bytes of a path: each component after a separator.
RECURSIVE JoinBytes(_)
JoinBytes(p) ==
    IF p = <<>> THEN <<>>
    ELSE JoinBytes(Dir(p)) \o <<47>> \o Bytes(p[Len(p)])

\* filepath.Base(s): what follows the last separator.
FilepathBase(s) ==
    LET seps == {i \in DOMAIN s : s[i] = 47}
        last == IF seps = {} THEN 0 ELSE CHOOSE i \in seps : \A j \in seps : j <= i
    IN  SubSeq(s, last + 1, Len(s))

\* strings.TrimSuffix(s, suffix)
TrimSuffix(s, suffix) ==
    IF HasSuffix(s, suffix) THEN SubSeq(s, 1, Len(s) - Len(suffix)) ELSE s

\* asKey(path): the final component without a trailing ".yaml".
asKey(s) == TrimSuffix(FilepathBase(s), StrYaml)

\* getPath(p): the absolute form of p; the paths of the model are absolute.
getPath(p) == p

\* The top directory given to LoadRepos, and the repository NewRepo is
\* called on when it is called alone.
PathP == <<NameP>>
PathR == <<NameP, NameR>>

\* Every path of the model.
AllPaths ==
    {PathP, PathR,
     Join(PathR, NameDotG), Join(Join(PathR, NameDotG), NameA),
     Join(PathR, NameDotH), Join(PathR, NameRepo),
     Join(PathR, NameA), Join(PathR, NameB),
     Join(PathR, NameS), Join(Join(PathR, NameS), NameC),
     Join(PathR, NameSY),
     Join(PathP, NameF),
     Join(PathP, NameQ), Join(Join(PathP, NameQ), NameA),
     Join(PathP, NameU), Join(Join(PathP, NameU), NameRepo)}

\* The Go string of every path of the model.
PathStrings == [p \in AllPaths |-> JoinBytes(p)]

\* The path as the Go string the program handles: the bytes of "/p/r/a.yaml".
PathString(p) == PathStrings[p]

\* What a path holds: nothing, a file that parses, a file that does not, a
\* directory, or an entry whose lstat fails.
Kinds == {"absent", "file", "badfile", "dir", "err"}

\* The tree with the entries of t and nothing else.
MakeFS(t) == [p \in AllPaths |-> IF p \in DOMAIN t THEN t[p] ELSE "absent"]

\* The function with the pairs of both f and g (f wins).
Merge(f, g) ==
    [x \in DOMAIN f \cup DOMAIN g |-> IF x \in DOMAIN f THEN f[x] ELSE g[x]]

\* The function that maps x to v.
One(x, v) == [y \in {x} |-> v]

\* The empty function (an empty Go map).
EmptyMap == [x \in {} |-> x]

\* The optional entry at path p, one of the kinds ks.
Opt(p, ks) == {EmptyMap} \cup {One(p, k) : k \in ks}

\* The sub-repository /p/r/s: absent, unreachable, or a directory with c.yaml.
SubTrees ==
    {EmptyMap, One(Join(PathR, NameS), "err")}
    \cup {Merge(One(Join(PathR, NameS), "dir"), c) :
            c \in Opt(Join(Join(PathR, NameS), NameC), {"file", "badfile"})}

\* The hidden directory /p/r/.g, with a.yaml in it.
HiddenTrees ==
    {EmptyMap,
     Merge(One(Join(PathR, NameDotG), "dir"),
           One(Join(Join(PathR, NameDotG), NameA), "file"))}

\* The trees NewRepo is run on: /p/r with any of .g/a.yaml, .h.yaml,
\* _repo.yaml, a.yaml, b.yaml and s/c.yaml.
BuildTrees ==
    {MakeFS(Merge(One(PathP, "dir"), Merge(One(PathR, "dir"),
        Merge(g, Merge(h, Merge(m, Merge(a, Merge(b, s)))))))) :
        g \in HiddenTrees,
        h \in Opt(Join(PathR, NameDotH), {"file"}),
        m \in Opt(Join(PathR, NameRepo), {"file", "badfile"}),
        a \in Opt(Join(PathR, NameA), {"file", "badfile", "err"}),
        b \in Opt(Join(PathR, NameB), {"file", "badfile"}),
        s \in SubTrees}

\* The repository /p/r under LoadRepos: absent, without the marker, with it,
\* or with it and the sub-repository s/c.yaml.
LoadRepoTrees ==
    {EmptyMap,
     Merge(One(PathR, "dir"), One(Join(PathR, NameA), "file")),
     Merge(One(PathR, "dir"), One(Join(PathR, NameRepo), "file")),
     Merge(One(PathR, "dir"), Merge(One(Join(PathR, NameRepo), "file"),
        Merge(One(Join(PathR, NameS), "dir"),
              One(Join(Join(PathR, NameS), NameC), "file"))))}

\* The trees LoadRepos is run on: /p with any of the plain file f.yaml, the
\* directory q without a marker, and the repositories r and u.
LoadTrees ==
    {MakeFS(Merge(One(PathP, "dir"), Merge(f, Merge(q, Merge(r, u))))) :
        f \in Opt(Join(PathP, NameF), {"file"}),
        q \in {EmptyMap,
               Merge(One(Join(PathP, NameQ), "dir"),
                     One(Join(Join(PathP, NameQ), NameA), "file"))},
        r \in LoadRepoTrees,
        u \in {EmptyMap,
               Merge(One(Join(PathP, NameU), "dir"),
                     One(Join(Join(PathP, NameU), NameRepo), "file"))}}

\* The trees Repo.Execute is run on after NewRepo: /p/r with any of
\* _repo.yaml, a.yaml, s.yaml and the sub-repository s, with or without c.yaml.
ResolveTrees ==
    {MakeFS(Merge(One(PathP, "dir"), Merge(One(PathR, "dir"),
        Merge(m, Merge(a, Merge(y, s)))))) :
        m \in Opt(Join(PathR, NameRepo), {"file", "badfile"}),
        a \in Opt(Join(PathR, NameA), {"file"}),
        y \in Opt(Join(PathR, NameSY), {"file"}),
        s \in {t \in SubTrees : Join(PathR, NameS) \in DOMAIN t
                                 => t[Join(PathR, NameS)] = "dir"}}

\* The names in a set, in increasing order: the name at position i is the
\* one with i - 1 smaller names.
SortSet(S) ==
    [i \in 1..Cardinality(S) |->
        CHOOSE x \in S :
            Cardinality({y \in S : StrLess(Bytes(y), Bytes(x))}) = i - 1]

\* readDirNames(dir) / ioutil.ReadDir(dir): the entries of dir, sorted by name.
ReadDirNames(dir) ==
    SortSet({p[Len(p)] : p \in {q \in AllPaths : Len(q) = Len(dir) + 1
                                                 /\ Dir(q) = dir
                                                 /\ fs[q] # "absent"}})

\* The entries of dir as paths, in the order filepath.Walk visits them.
ChildPaths(dir) == [i \in 1..Len(ReadDirNames(dir)) |-> Join(dir, ReadDirNames(dir)[i])]

-----------------------------------------------------------------------------
(* repo.go: the documents and the goroutines *)

\* The Info a failed load leaves behind: the zero value.
ZeroInfo == [ID |-> StrEmpty, path |-> <<>>]

\* LoadInfo(path): the document with its identity taken from the path, or an
\* error when the file cannot be read or parsed.
LoadInfo(p) ==
    IF fs[p] = "file"
    THEN [err |-> FALSE, info |-> [ID |-> asKey(PathString(p)), path |-> p]]
    ELSE [err |-> TRUE, info |-> ZeroInfo]

\* m[k] = v on a Go map.
Store(m, k, v) == [x \in DOMAIN m \cup {k} |-> IF x = k THEN v ELSE m[x]]

\* The node whose goroutine loadInfo(p) is, the node whose walk met p: the
\* node rooted at p when p is itself the root of a walk, else the node of the
\* nearest directory above p that is the root of a walk.
RECURSIVE Owner(_)
Owner(p) == IF npc[p] # "none" \/ Len(p) <= 1 THEN p ELSE Owner(Dir(p))

\* Whether NewRepo(n) was called by LoadRepos (or alone) and not by a parent
\* node's loadSubrepo.
IsTop(n) == npc[Dir(n)] = "none"

\* loadInfo: control files start with an underscore.
InfoDestAlwaysInfo(p) == "Info"

InfoDest(p) ==
    IF HasPrefix(asKey(PathString(p)), StrUnderscore) THEN "Control" ELSE "Info"

\* The goroutines: <<"info", p>> is loadInfo(p); <<"repo", n>> is
\* loadSubrepo(n), or the goroutine LoadRepos starts for n.
Tasks == {<<"info", p>> : p \in AllPaths} \cup {<<"repo", p>> : p \in AllPaths}

\* The map a goroutine assigns to.
TaskMap(t) ==
    IF t[1] = "info" THEN <<InfoDest(t[2]), Owner(t[2])>>
    ELSE IF IsTop(t[2]) THEN <<"repos", PathP>>
    ELSE <<"Subrepos", Dir(t[2])>>

\* The key a goroutine assigns.
TaskKey(t) ==
    IF t[1] = "info" THEN LoadInfo(t[2]).info.ID
    ELSE asKey(PathString(t[2]))

\* A goroutine is inside its map assignment.
Writing(t) ==
    IF t[1] = "info" THEN tpc[t[2]] = "writing" ELSE npc[t[2]] = "writing"

\* The goroutines inside an assignment to the map m.
Writers(m) == {t \in Tasks : Writing(t) /\ TaskMap(t) = m}

\* Goroutine t enters its map assignment.  Go maps are not synchronised: an
\* assignment that overlaps another assignment to the same map is a data race.
BeginWrite(t) ==
    IF Writers(TaskMap(t)) # {}
    THEN raced \cup {t} \cup Writers(TaskMap(t))
    ELSE raced

\* How the assignment of goroutine t can end: a racing assignment may store
\* its entry, lose it, or end the process ("concurrent map writes").
Outcomes(t) == IF t \in raced THEN {"stored", "lost", "fatal"} ELSE {"stored"}

\* Repo.walk: dotfiles are skipped.
IsHiddenNever(path) == FALSE

IsHidden(path) == HasPrefix(FilepathBase(PathString(path)), StrDot)

\* Repo.isSubrepo
isSubrepoNever(root, path) == FALSE

isSubrepo(root, path) == getPath(root) # path

\* Repo.walk(path, info, err) of the node rooted at root: what it does.
WalkFn(root, path, lstatFailed) ==
    IF lstatFailed THEN "error"
    ELSE IF IsHidden(path) THEN "skipdir"
    ELSE IF fs[path] = "dir" /\ isSubrepo(root, path) THEN "subrepo"
    ELSE IF HasSuffix(PathString(path), StrYaml) THEN "info"
    ELSE "nil"

\* filepath.Walk after walk returned an error for an entry: the walk ends.
AfterErrorContinue(rest) == rest

AfterError(rest) == <<>>

\* filepath.Walk after walk returned SkipDir: a directory is not entered; for
\* a file the rest of the containing directory is skipped.
AfterSkipDir(path, rest) ==
    IF fs[path] = "dir" THEN rest
    ELSE SelectSeq(rest, LAMBDA q : Dir(q) # Dir(path))

\* filepath.Walk after walk returned nil: a directory is entered, its entries
\* come next.
AfterNil(path, rest) ==
    IF fs[path] = "dir" THEN ChildPaths(path) \o rest ELSE rest

\* r.wg.Wait() / wg.Wait() may return.
WaitDoneAtOnce(n) == TRUE

WaitDone(n) == wgc[n] = 0

\* NewRepo(n) up to the first entry of the walk: the maps are made, the root
\* is visited and, when it is a directory, its names are read.
NewRepoStart(n) ==
    /\ ~fatal
    /\ npc[n] = "start"
    /\ LET v     == WalkFn(n, n, fs[n] \in {"absent", "err"})
           names == IF v \in {"nil", "info"} THEN AfterNil(n, <<>>) ELSE <<>>
       IN  /\ npc' = [npc EXCEPT ![n] = IF names = <<>> THEN "wait" ELSE "walk"]
           /\ todo' = [todo EXCEPT ![n] = names]
           /\ wgc' = [wgc EXCEPT ![n] = IF v = "info" THEN 1 ELSE 0]
           /\ tpc' = [tpc EXCEPT ![n] = IF v = "info" THEN "spawned" ELSE @]
           /\ logs' = IF v = "error"
                      THEN logs \cup {[msg |-> "walk error: ", path |-> n]}
                      ELSE logs
    /\ infoMap' = [infoMap EXCEPT ![n] = EmptyMap]
    /\ controlMap' = [controlMap EXCEPT ![n] = EmptyMap]
    /\ subMap' = [subMap EXCEPT ![n] = EmptyMap]
    /\ UNCHANGED <<hostVars, resolveVars, fs, raced, fatal, mpc, mtodo, mwg, repos>>

\* filepath.Walk of node n visits the next entry.
WalkStep(n) ==
    /\ ~fatal
    /\ npc[n] = "walk"
    /\ LET path == Head(todo[n])
           rest == Tail(todo[n])
           v    == WalkFn(n, path, fs[path] = "err")
           cont == IF v = "error" THEN AfterError(rest)
                   ELSE IF v \in {"skipdir", "subrepo"} THEN AfterSkipDir(path, rest)
                   ELSE AfterNil(path, rest)
       IN  /\ todo' = [todo EXCEPT ![n] = cont]
           /\ npc' = [npc EXCEPT ![n] = IF cont = <<>> THEN "wait" ELSE "walk",
                                 ![path] = IF v = "subrepo" THEN "start" ELSE @]
           /\ tpc' = [tpc EXCEPT ![path] = IF v = "info" THEN "spawned" ELSE @]
           /\ wgc' = [wgc EXCEPT ![n] = IF v \in {"subrepo", "info"} THEN @ + 1 ELSE @]
           /\ logs' = IF v = "error"
                      THEN logs \cup {[msg |-> "walk error: ", path |-> path]}
                      ELSE logs
    /\ UNCHANGED <<hostVars, resolveVars, fs, infoMap, controlMap, subMap, raced, fatal, mpc, mtodo,
                   mwg, repos>>

\* loadInfo(p) loads the document and enters the map assignment.
LoadInfoBegin(p) ==
    /\ ~fatal
    /\ tpc[p] = "spawned"
    /\ tpc' = [tpc EXCEPT ![p] = "writing"]
    /\ logs' = IF LoadInfo(p).err
               THEN logs \cup {[msg |-> "Failed to load info: ", path |-> p]}
               ELSE logs
    /\ raced' = BeginWrite(<<"info", p>>)
    /\ UNCHANGED <<hostVars, resolveVars, fs, npc, todo, wgc, infoMap, controlMap, subMap, fatal,
                   mpc, mtodo, mwg, repos>>

\* loadInfo(p) completes the map assignment and runs the deferred wg.Done().
LoadInfoEnd(p) ==
    /\ ~fatal
    /\ tpc[p] = "writing"
    /\ \E o \in Outcomes(<<"info", p>>) :
          IF o = "fatal"
          THEN /\ fatal' = TRUE
               /\ UNCHANGED <<tpc, wgc, infoMap, controlMap, raced>>
          ELSE /\ fatal' = fatal
               /\ tpc' = [tpc EXCEPT ![p] = "done"]
               /\ wgc' = [wgc EXCEPT ![Owner(p)] = @ - 1]
               /\ raced' = raced \ {<<"info", p>>}
               /\ infoMap' =
                    IF o = "stored" /\ InfoDest(p) = "Info"
                    THEN [infoMap EXCEPT ![Owner(p)] =
                            Store(@, LoadInfo(p).info.ID, LoadInfo(p).info)]
                    ELSE infoMap
               /\ controlMap' =
                    IF o = "stored" /\ InfoDest(p) = "Control"
                    THEN [controlMap EXCEPT ![Owner(p)] =
                            Store(@, LoadInfo(p).info.ID, LoadInfo(p).info)]
                    ELSE controlMap
    /\ UNCHANGED <<hostVars, resolveVars, fs, npc, todo, subMap, logs, mpc, mtodo, mwg, repos>>

\* NewRepo(n) passes r.wg.Wait() and returns; unless NewRepo was called
\* alone, its caller enters the assignment of the node to its map.
NewRepoReturn(n) ==
    /\ ~fatal
    /\ npc[n] = "wait"
    /\ WaitDone(n)
    /\ IF mpc = "direct" /\ IsTop(n)
       THEN /\ npc' = [npc EXCEPT ![n] = "ret"]
            /\ UNCHANGED raced
       ELSE /\ npc' = [npc EXCEPT ![n] = "writing"]
            /\ raced' = BeginWrite(<<"repo", n>>)
    /\ UNCHANGED <<hostVars, resolveVars, fs, todo, wgc, infoMap, controlMap, subMap, tpc, fatal,
                   logs, mpc, mtodo, mwg, repos>>

\* loadSubrepo(n), or the goroutine of LoadRepos, completes the assignment
\* of the node to the map and runs the deferred wg.Done().
NodeWriteEnd(n) ==
    /\ ~fatal
    /\ npc[n] = "writing"
    /\ \E o \in Outcomes(<<"repo", n>>) :
          IF o = "fatal"
          THEN /\ fatal' = TRUE
               /\ UNCHANGED <<npc, wgc, subMap, raced, mwg, repos>>
          ELSE /\ fatal' = fatal
               /\ npc' = [npc EXCEPT ![n] = "done"]
               /\ raced' = raced \ {<<"repo", n>>}
               /\ IF IsTop(n)
                  THEN /\ repos' = IF o = "stored"
                                   THEN Store(repos, asKey(PathString(n)), n)
                                   ELSE repos
                       /\ mwg' = mwg - 1
                       /\ UNCHANGED <<subMap, wgc>>
                  ELSE /\ subMap' = IF o = "stored"
                                    THEN [subMap EXCEPT ![Dir(n)] =
                                            Store(@, asKey(PathString(n)), n)]
                                    ELSE subMap
                       /\ wgc' = [wgc EXCEPT ![Dir(n)] = @ - 1]
                       /\ UNCHANGED <<repos, mwg>>
    /\ UNCHANGED <<hostVars, resolveVars, fs, todo, infoMap, controlMap, tpc, logs, mpc, mtodo>>

\* os.Stat(path): nil, or the error.
Stat(path) ==
    IF path \in AllPaths /\ fs[path] # "absent" THEN "nil"
    ELSE IF fs[Dir(path)] = "dir" THEN "ENOENT"
    ELSE "ENOTDIR"

\* os.IsNotExist(err)
IsNotExist(err) == err = "ENOENT"

\* LoadRepos(p) up to its loop: the map is made and the directory is read.
LoadReposStart ==
    /\ ~fatal
    /\ mpc = "start"
    /\ mtodo' = ReadDirNames(getPath(PathP))
    /\ mpc' = IF ReadDirNames(getPath(PathP)) = <<>> THEN "wait" ELSE "loop"
    /\ repos' = EmptyMap
    /\ UNCHANGED <<hostVars, resolveVars, fs, npc, todo, wgc, infoMap, controlMap, subMap, tpc, raced,
                   fatal, logs, mwg>>

\* One round of the loop of LoadRepos: an entry without the marker is
\* skipped, for any other a goroutine is started.
LoadReposStep ==
    /\ ~fatal
    /\ mpc = "loop"
    /\ LET fn   == Join(PathP, Head(mtodo))
           skip == IsNotExist(Stat(Join(fn, NameRepo)))
       IN  /\ logs' = IF skip
                      THEN logs \cup {[msg |-> "Skipping repo: no _repo.yaml found.",
                                       path |-> fn]}
                      ELSE logs
           /\ mwg' = IF skip THEN mwg ELSE mwg + 1
           /\ npc' = [npc EXCEPT ![fn] = IF skip THEN @ ELSE "start"]
    /\ mtodo' = Tail(mtodo)
    /\ mpc' = IF Tail(mtodo) = <<>> THEN "wait" ELSE "loop"
    /\ UNCHANGED <<hostVars, resolveVars, fs, todo, wgc, infoMap, controlMap, subMap, tpc, raced,
                   fatal, repos>>

\* LoadRepos passes wg.Wait() and returns.
LoadReposReturn ==
    /\ ~fatal
    /\ mpc = "wait"
    /\ mwg = 0
    /\ mpc' = "returned"
    /\ UNCHANGED <<hostVars, resolveVars, fs, npc, todo, wgc, infoMap, controlMap, subMap, tpc, raced,
                   fatal, logs, mtodo, mwg, repos>>

\* The tokens given to Repo.Execute: "a", "s", "c", "_repo", "x".
ResolveTokens == {<<97>>, <<115>>, <<99>>, <<95, 114, 101, 112, 111>>, <<120>>}

ResolveArgs == SeqUpTo(ResolveTokens, MaxTokens)

\* A Repo value is named by its root; the empty root is the zero value
\* Repo{}, whose maps are nil.
RepoInfo(r) == IF r = <<>> THEN EmptyMap ELSE infoMap[r]

RepoSubrepos(r) == IF r = <<>> THEN EmptyMap ELSE subMap[r]

\* Repo.Keys over the map iteration order `order`: the IDs of r.Info, sorted.
Keys(r, order) == SortStrings([i \in DOMAIN order |-> RepoInfo(r)[order[i]].ID])

\* Repo.SubrepoKeys over the map iteration order `order`: the Keys of
\* r.Subrepos, sorted.
SubrepoKeys(r, order) ==
    SortStrings([i \in DOMAIN order |->
                    asKey(PathString(RepoSubrepos(r)[order[i]]))])

\* One round of the loop of Repo.Execute: repo.Info is tried first, then
\* repo.Subrepos.
MatchTokenSubrepoFirst(repo, arg) ==
    IF arg \in DOMAIN RepoSubrepos(repo) THEN "subrepo"
    ELSE IF arg \in DOMAIN RepoInfo(repo) THEN "info"
    ELSE "none"

MatchToken(repo, arg) ==
    IF arg \in DOMAIN RepoInfo(repo) THEN "info"
    ELSE IF arg \in DOMAIN RepoSubrepos(repo) THEN "subrepo"
    ELSE "none"

\* The loop of Repo.Execute from the cursor repo over args: the documents
\* executed and the value of repo after it.  On a miss `repo, ok =
\* repo.Subrepos[arg]` has assigned repo the zero value before the break.
RECURSIVE ExecuteLoop(_, _)
ExecuteLoop(repo, args) ==
    IF args = <<>> THEN [invoked |-> <<>>, repo |-> repo]
    ELSE LET m == MatchToken(repo, Head(args)) IN
         IF m = "info"
         THEN [invoked |-> <<RepoInfo(repo)[Head(args)]>>, repo |-> repo]
         ELSE IF m = "subrepo"
         THEN ExecuteLoop(RepoSubrepos(repo)[Head(args)], Tail(args))
         ELSE [invoked |-> <<>>, repo |-> <<>>]

\* The lines Repo.Execute prints after the loop: the sub-repository keys in
\* blue, then the document keys.
PrintListing(repo, so, io) ==
    [i \in DOMAIN so |-> [blue |-> TRUE, key |-> SubrepoKeys(repo, so)[i]]]
    \o [i \in DOMAIN io |-> [blue |-> FALSE, key |-> Keys(repo, io)[i]]]

\* Repo.Execute on the node NewRepo("/p/r") returned.
RepoExecute ==
    /\ ~fatal
    /\ rpc = "ready"
    /\ npc[PathR] = "ret"
    /\ \E args \in ResolveArgs :
          LET r == ExecuteLoop(PathR, args) IN
          /\ rargs' = args
          /\ invoked' = r.invoked
          /\ IF r.invoked # <<>>
             THEN listing' = <<>>
             ELSE \E so \in Orders(DOMAIN RepoSubrepos(r.repo)),
                     io \in Orders(DOMAIN RepoInfo(r.repo)) :
                      listing' = PrintListing(r.repo, so, io)
    /\ rpc' = "done"
    /\ UNCHANGED <<hostVars, buildVars>>

-----------------------------------------------------------------------------
(* repo.go: the specifications *)

\* No document run.
HostIdle ==
    /\ hdoc = EmptyMap
    /\ hargs = <<>>
    /\ hpc = "off"
    /\ acted = <<>>
    /\ out = <<>>
    /\ exit = "running"
    /\ hcat = StrEmpty
    /\ hostp = [nil |-> TRUE]

\* No run of Repo.Execute.
ResolveIdle ==
    /\ rargs = <<>>
    /\ rpc = "off"
    /\ invoked = <<>>
    /\ listing = <<>>

\* No build run.
BuildIdle ==
    /\ fs = EmptyMap
    /\ npc = EmptyMap
    /\ todo = EmptyMap
    /\ wgc = EmptyMap
    /\ infoMap = EmptyMap
    /\ controlMap = EmptyMap
    /\ subMap = EmptyMap
    /\ tpc = EmptyMap
    /\ raced = {}
    /\ fatal = FALSE
    /\ logs = {}
    /\ mpc = "off"
    /\ mtodo = <<>>
    /\ mwg = 0
    /\ repos = EmptyMap

\* NewRepo("/p/r") is called alone, on any tree of BuildTrees.
InitBuild ==
    /\ HostIdle
    /\ ResolveIdle
    /\ fs \in BuildTrees
    /\ npc = [p \in AllPaths |-> IF p = PathR THEN "start" ELSE "none"]
    /\ todo = [p \in AllPaths |-> <<>>]
    /\ wgc = [p \in AllPaths |-> 0]
    /\ infoMap = [p \in AllPaths |-> EmptyMap]
    /\ controlMap = [p \in AllPaths |-> EmptyMap]
    /\ subMap = [p \in AllPaths |-> EmptyMap]
    /\ tpc = [p \in AllPaths |-> "none"]
    /\ raced = {}
    /\ fatal = FALSE
    /\ logs = {}
    /\ mpc = "direct"
    /\ mtodo = <<>>
    /\ mwg = 0
    /\ repos = EmptyMap

\* LoadRepos("/p") is called, on any tree of LoadTrees.
InitLoad ==
    /\ HostIdle
    /\ ResolveIdle
    /\ fs \in LoadTrees
    /\ npc = [p \in AllPaths |-> "none"]
    /\ todo = [p \in AllPaths |-> <<>>]
    /\ wgc = [p \in AllPaths |-> 0]
    /\ infoMap = [p \in AllPaths |-> EmptyMap]
    /\ controlMap = [p \in AllPaths |-> EmptyMap]
    /\ subMap = [p \in AllPaths |-> EmptyMap]
    /\ tpc = [p \in AllPaths |-> "none"]
    /\ raced = {}
    /\ fatal = FALSE
    /\ logs = {}
    /\ mpc = "start"
    /\ mtodo = <<>>
    /\ mwg = 0
    /\ repos = EmptyMap

\* The steps of the goroutines of a build.
NextBuild ==
    \E p \in AllPaths :
        \/ NewRepoStart(p)
        \/ WalkStep(p)
        \/ NewRepoReturn(p)
        \/ LoadInfoBegin(p)
        \/ LoadInfoEnd(p)

\* The goroutines that write a node to its caller's map.
NextAttach == \E p \in AllPaths : NodeWriteEnd(p)

\* The steps of LoadRepos itself.
NextLoadRepos ==
    \/ LoadReposStart
    \/ LoadReposStep
    \/ LoadReposReturn

SpecBuild == InitBuild /\ [][NextBuild \/ NextAttach]_vars

SpecLoad == InitLoad /\ [][NextBuild \/ NextAttach \/ NextLoadRepos]_vars

\* LoadRepos under the Go scheduler: a goroutine that can take a step is
\* eventually run.
SpecLoadFair == SpecLoad /\ WF_vars(NextBuild \/ NextAttach \/ NextLoadRepos)

\* NewRepo("/p/r") is called on any tree of ResolveTrees, then Repo.Execute
\* is run on the node it returned.
InitResolve ==
    /\ HostIdle
    /\ rargs = <<>>
    /\ rpc = "ready"
    /\ invoked = <<>>
    /\ listing = <<>>
    /\ fs \in ResolveTrees
    /\ npc = [p \in AllPaths |-> IF p = PathR THEN "start" ELSE "none"]
    /\ todo = [p \in AllPaths |-> <<>>]
    /\ wgc = [p \in AllPaths |-> 0]
    /\ infoMap = [p \in AllPaths |-> EmptyMap]
    /\ controlMap = [p \in AllPaths |-> EmptyMap]
    /\ subMap = [p \in AllPaths |-> EmptyMap]
    /\ tpc = [p \in AllPaths |-> "none"]
    /\ raced = {}
    /\ fatal = FALSE
    /\ logs = {}
    /\ mpc = "direct"
    /\ mtodo = <<>>
    /\ mwg = 0
    /\ repos = EmptyMap

NextResolve == RepoExecute

SpecResolve == InitResolve /\ [][NextBuild \/ NextAttach \/ NextResolve]_vars

-----------------------------------------------------------------------------
(* host.go: the specification of one run of HostInfo.Execute *)

InitHost ==
    /\ BuildIdle
    /\ ResolveIdle
    /\ hdoc \in HostTypes
    /\ hargs = <<>>
    /\ hpc = "ready"
    /\ acted = <<>>
    /\ out = <<>>
    /\ exit = "running"
    /\ hcat = StrEmpty
    /\ hostp = [nil |-> TRUE]

HostInfoExecute ==
    /\ hpc = "ready"
    /\ \E args \in ArgSeqs, order \in Orders(DOMAIN hdoc), sshOK \in BOOLEAN :
          LET r == ExecuteResult(hdoc, args, order, sshOK) IN
          /\ hargs' = args
          /\ acted' = r.acted
          /\ out' = r.out
          /\ exit' = r.exit
    /\ hpc' = "done"
    /\ UNCHANGED <<hdoc, hcat, hostp, buildVars, resolveVars>>

NextHost == HostInfoExecute

SpecHost == InitHost /\ [][NextHost]_vars

\* One run of a host command of MakeCLI, on a document of LookupTypes.
InitLookup ==
    /\ BuildIdle
    /\ ResolveIdle
    /\ hdoc \in LookupTypes
    /\ hargs = <<>>
    /\ hpc = "ready"
    /\ acted = <<>>
    /\ out = <<>>
    /\ exit = "running"
    /\ hcat = StrEmpty
    /\ hostp = [nil |-> TRUE]

HostCommandAction ==
    /\ hpc = "ready"
    /\ \E key \in DOMAIN hdoc, args \in LookupArgs, sshOK \in BOOLEAN :
          LET r == HostCommandResult(hdoc[key], args, sshOK) IN
          /\ hcat' = key
          /\ hargs' = args
          /\ hostp' = r.ptr
          /\ acted' = r.res.acted
          /\ out' = r.res.out
          /\ exit' = r.res.exit
    /\ hpc' = "cmddone"
    /\ UNCHANGED <<hdoc, buildVars, resolveVars>>

NextLookup == HostCommandAction

SpecLookup == InitLookup /\ [][NextLookup]_vars

-----------------------------------------------------------------------------
(* Claims about host.go, checked under SpecHost *)

\* The hosts of the category named by the first token of the run.
ArgHosts == hdoc[hargs[1]].Hosts

\* The primary host of a non-empty host list, stated over the set of flagged
\* positions: the least flagged position, or the first position when none is.
ExpectedPrimary(hosts) ==
    LET P == {i \in 1..Len(hosts) : hosts[i].Primary}
    IN  IF P = {} THEN hosts[1]
        ELSE hosts[CHOOSE i \in P : \A j \in P : i <= j]

C1_Case ==
    /\ hpc = "done"
    /\ Len(hargs) = 1
    /\ hargs[1] \in DOMAIN hdoc
    /\ Len(ArgHosts) >= 1

\* C1: with exactly one token naming an existing category that has at least
\* one host, the host action is performed once, on the first host in
\* declaration order whose primary flag is set, or on hosts[0] when no host has
\* the flag; no other host is acted on.
C1_OneTokenSelectsPrimary ==
    C1_Case =>
        /\ Len(acted) = 1
        /\ acted[1].FQDN = ExpectedPrimary(ArgHosts).FQDN

\* A run on a category whose second host is the only flagged one.
C1_Witness ==
    /\ C1_Case
    /\ Len(ArgHosts) = 2
    /\ ~ArgHosts[1].Primary
    /\ ArgHosts[2].Primary
    /\ acted = <<[FQDN |-> HostName(2), extra |-> <<StrEmpty>>]>>

\* The decimal value of a string of digits, read from its last digit.
RECURSIVE DecimalValue(_)
DecimalValue(ds) ==
    IF ds = <<>> THEN 0
    ELSE DecimalValue(SubSeq(ds, 1, Len(ds) - 1)) * 10 + (ds[Len(ds)] - 48)

\* The digits of a token: the token without its sign.
Unsigned(t) == IF t # <<>> /\ t[1] \in {43, 45} THEN Tail(t) ELSE t

\* A token is an integer when it is an optional sign and at least one digit.
IsInteger(t) ==
    /\ Unsigned(t) # <<>>
    /\ \A i \in DOMAIN Unsigned(t) : Unsigned(t)[i] \in 48..57

IntegerOf(t) ==
    IF t[1] = 45 THEN 0 - DecimalValue(Unsigned(t)) ELSE DecimalValue(Unsigned(t))

C2_Case ==
    /\ hpc = "done"
    /\ Len(hargs) = 2
    /\ hargs[1] \in DOMAIN hdoc

\* C2: with two tokens, the first naming an existing category C: when the
\* second token is an integer i with 0 <= i < len(C.hosts) the host action is
\* performed on exactly C.hosts[i]; when i is out of that range (negative
\* included) or the token is no integer the run ends in a fatal error and no
\* host action is performed.
C2_TwoTokenSelectsIndex ==
    C2_Case =>
        IF /\ IsInteger(hargs[2])
           /\ IntegerOf(hargs[2]) >= 0
           /\ IntegerOf(hargs[2]) < Len(ArgHosts)
        THEN /\ Len(acted) = 1
             /\ acted[1].FQDN = ArgHosts[IntegerOf(hargs[2]) + 1].FQDN
        ELSE /\ acted = <<>>
             /\ exit \in {"fatal", "panic"}

\* The run "C 1" on a category of two hosts acts on the second one.
C2_Witness ==
    /\ C2_Case
    /\ hargs[2] = <<49>>
    /\ Len(ArgHosts) = 2
    /\ acted = <<[FQDN |-> HostName(2), extra |-> <<StrEmpty>>]>>

\* The keys S in increasing order.
SortedKeys(S) ==
    CHOOSE q \in Orders(S) : \A i, j \in DOMAIN q : i < j => StrLess(q[i], q[j])

C3_Case ==
    /\ hpc = "done"
    /\ Len(hargs) \in {1, 2}
    /\ hargs[1] \notin DOMAIN hdoc

\* C3: when the first of one or two tokens names no category of the document,
\* the run prints the invalid choice and the valid category names in sorted
\* order, exits with status 1 and performs no host action.
C3_UnknownCategory ==
    C3_Case =>
        /\ acted = <<>>
        /\ exit = "exit1"
        /\ out = <<[msg |-> "No such type:", arg |-> hargs[1]],
                   [msg |-> "Choices are: ",
                    arg |-> StringsJoin(SortedKeys(DOMAIN hdoc), StrCommaSpace)]>>

\* An unknown token on a document of two categories.
C3_Witness ==
    /\ C3_Case
    /\ Cardinality(DOMAIN hdoc) = 2
    /\ exit = "exit1"
    /\ out[2].arg = <<65, 44, 32, 97>>

\* The positions of the hosts of the command's category named by the argument.
Matches == {i \in DOMAIN hdoc[hcat].Hosts : hdoc[hcat].Hosts[i].FQDN = hargs[1]}

C11_Case ==
    /\ hpc = "cmddone"
    /\ Len(hargs) >= 1

\* C11: GetHost(fqdn) returns the first host in declaration order whose FQDN
\* equals fqdn; when no host matches it returns an unpopulated Host, on which
\* the has-value check can be evaluated and yields false, not a nil reference.
C11_GetHostUnpopulated ==
    C11_Case =>
        IF Matches # {}
        THEN hostp = [nil |-> FALSE,
                      val |-> hdoc[hcat].Hosts[CHOOSE i \in Matches :
                                                 \A j \in Matches : i <= j]]
        ELSE /\ hostp.nil = FALSE
             /\ hostp.val.FQDN = StrEmpty
             /\ hasHost(hostp) = "false"

\* C17: with more than two tokens the tokens after the second are ignored:
\* the run ends as the run on the first two tokens alone does (same host
\* action, same report, same way of ending).
C17_ExtraTokensIgnored ==
    (hpc = "done" /\ Len(hargs) > 2) =>
        \E order \in Orders(DOMAIN hdoc), sshOK \in BOOLEAN :
            LET two == ExecuteResult(hdoc, SubSeq(hargs, 1, 2), order, sshOK)
            IN  /\ acted = two.acted
                /\ out = two.out
                /\ exit = two.exit

\* C19: one token naming an existing category never faults, also when the
\* category has no hosts: the run ends in one host action, on a member of the
\* category's hosts, and never in an out-of-range access.
C19_OneTokenNeverFaults ==
    (hpc = "done" /\ Len(hargs) = 1 /\ hargs[1] \in DOMAIN hdoc) =>
        /\ exit # "panic"
        /\ Len(acted) = 1
        /\ \E i \in DOMAIN ArgHosts : acted[1].FQDN = ArgHosts[i].FQDN

-----------------------------------------------------------------------------
(* Claims about repo.go, checked under SpecBuild and SpecLoad *)

\* The entries of the directory n.
Entries(n) ==
    {q \in AllPaths : Len(q) = Len(n) + 1 /\ Dir(q) = n /\ fs[q] # "absent"}

\* The last component of a path, as a Go string.
NameOf(q) == Bytes(q[Len(q)])

\* A component below the top directory starts with a dot.
HiddenBelow(p) == \E i \in 2..Len(p) : HasPrefix(Bytes(p[i]), StrDot)

\* NewRepo(n) has returned.
Returned(n) == npc[n] \in {"ret", "writing", "done"}

\* The paths the maps of node n refer to.
NodeEntryPaths(n) ==
    {infoMap[n][k].path : k \in DOMAIN infoMap[n]}
    \cup {controlMap[n][k].path : k \in DOMAIN controlMap[n]}
    \cup {subMap[n][k] : k \in DOMAIN subMap[n]}

\* The keys of the maps of node n.
NodeKeys(n) == DOMAIN infoMap[n] \cup DOMAIN controlMap[n] \cup DOMAIN subMap[n]

\* C4: at no time does an entry whose base name starts with "." or anything
\* below such an entry appear in the Info, Control or Subrepos map of a node,
\* also when a hidden directory holds validly named .yaml files.
C4_NoHiddenEntries ==
    \A n \in AllPaths :
        /\ \A p \in NodeEntryPaths(n) : ~HiddenBelow(p)
        /\ \A k \in NodeKeys(n) : ~HasPrefix(k, StrDot)

\* A finished build of a tree with .g/a.yaml in it, whose root holds the
\* document a and the sub-repository s.
C4_Witness ==
    /\ npc[PathR] = "ret"
    /\ fs[Join(Join(PathR, NameDotG), NameA)] = "file"
    /\ <<97>> \in DOMAIN infoMap[PathR]
    /\ <<115>> \in DOMAIN subMap[PathR]

\* The immediate children of the top directory.
TopChildren == Entries(PathP)

\* A child of the top directory that is a directory holding _repo.yaml.
Marked(c) ==
    /\ fs[c] = "dir"
    /\ Join(c, NameRepo) \in AllPaths
    /\ fs[Join(c, NameRepo)] # "absent"

\* C5: LoadRepos returns exactly one entry per immediate child that is a
\* directory holding _repo.yaml; a directory without the marker and a plain
\* file are neither built nor entered.
C5_OnlyMarkedDirectories ==
    /\ \A c \in TopChildren :
          ~Marked(c) => /\ npc[c] = "none"
                        /\ asKey(PathString(c)) \notin DOMAIN repos
    /\ mpc = "returned" =>
          DOMAIN repos = {asKey(PathString(c)) : c \in {d \in TopChildren : Marked(d)}}

\* The goroutines a node's walk has started are all finished.
TasksFinished(n) ==
    /\ tpc[n] \in {"none", "done"}
    /\ \A q \in AllPaths :
          (Len(q) = Len(n) + 1 /\ Dir(q) = n) =>
              /\ tpc[q] \in {"none", "done"}
              /\ npc[q] \in {"none", "done"}

\* C6: NewRepo returns only when its walk is over and every loadInfo and
\* loadSubrepo goroutine the walk started has finished; LoadRepos returns only
\* when every goroutine it started has finished.
C6_JoinBarrier ==
    /\ \A n \in AllPaths :
          Returned(n) => /\ todo[n] = <<>>
                         /\ wgc[n] = 0
                         /\ TasksFinished(n)
    /\ mpc = "returned" =>
          /\ mtodo = <<>>
          /\ \A c \in AllPaths : Len(c) = 2 => npc[c] \in {"none", "done"}

\* LoadRepos has returned two repositories, one of them with a document and
\* a sub-repository that has a document of its own.
C6_Witness ==
    /\ mpc = "returned"
    /\ Cardinality(DOMAIN repos) >= 2
    /\ DOMAIN controlMap[PathR] # {}
    /\ DOMAIN subMap[PathR] # {}
    /\ DOMAIN infoMap[Join(PathR, NameS)] # {}

\* C7: a failed document load is logged and leaves no entry in the Info or
\* Control map of its node (in particular none under the zero-value
\* identity).
C7_FailedLoadLeavesNoEntry ==
    \A p \in AllPaths :
        (fs[p] = "badfile" /\ tpc[p] = "done") =>
            /\ [msg |-> "Failed to load info: ", path |-> p] \in logs
            /\ \A k \in DOMAIN infoMap[Dir(p)] : infoMap[Dir(p)][k] # ZeroInfo
            /\ \A k \in DOMAIN controlMap[Dir(p)] : controlMap[Dir(p)][k] # ZeroInfo
            /\ StrEmpty \notin DOMAIN infoMap[Dir(p)] \cup DOMAIN controlMap[Dir(p)]

\* An entry at which the walk of its directory ends: its lstat fails, or it
\* is a hidden file.
EndsWalk(q) == fs[q] = "err" \/ (HasPrefix(NameOf(q), StrDot) /\ fs[q] # "dir")

\* The walk of the directory of q gets as far as q.
Reached(q) ==
    \A h \in Entries(Dir(q)) : StrLess(NameOf(h), NameOf(q)) => ~EndsWalk(h)

\* The entries of node n that are neither hidden nor failing.
Loadable(n) ==
    {q \in Entries(n) : fs[q] # "err" /\ ~HasPrefix(NameOf(q), StrDot)}

\* The documents and sub-directories of node n: what a complete walk loads.
Documents(n) ==
    {q \in Loadable(n) : fs[q] # "dir" /\ HasSuffix(NameOf(q), StrYaml)}

Subdirectories(n) == {q \in Loadable(n) : fs[q] = "dir"}

Wrote(t) ==
    IF t[1] = "info" THEN tpc[t[2]] \in {"writing", "done"}
    ELSE npc[t[2]] \in {"writing", "done"}

\* C9: no two goroutines of a build assign the same key of the same map,
\* also when document loads fail.
C9_DisjointKeys ==
    \A t1, t2 \in Tasks :
        (t1 # t2 /\ Wrote(t1) /\ Wrote(t2) /\ TaskMap(t1) = TaskMap(t2))
        => TaskKey(t1) # TaskKey(t2)

\* The walk of node n visits q and starts a goroutine for it.
Started(q) == q \in Loadable(Dir(q)) /\ Reached(q)

\* The map a schedule-independent build gives node n for the destination d
\* ("Info" or "Control").
ExpectedDocs(n, d) ==
    LET docs == {q \in Documents(n) : Started(q) /\ InfoDest(q) = d}
    IN  [k \in {LoadInfo(q).info.ID : q \in docs} |->
            LoadInfo(CHOOSE q \in docs : LoadInfo(q).info.ID = k).info]

ExpectedSubrepos(n) ==
    LET subs == {q \in Subdirectories(n) : Started(q)}
    IN  [k \in {asKey(PathString(q)) : q \in subs} |->
            CHOOSE q \in subs : asKey(PathString(q)) = k]

\* C10: every run of NewRepo over the same tree returns the same tree: the
\* maps of every node are those the directory tree determines, whatever the
\* schedule of the goroutines.
C10_Deterministic ==
    /\ ~fatal
    /\ npc[PathR] = "ret" =>
          \A n \in {PathR} \cup {q \in AllPaths : npc[q] = "done"} :
              /\ infoMap[n] = ExpectedDocs(n, "Info")
              /\ controlMap[n] = ExpectedDocs(n, "Control")
              /\ subMap[n] = ExpectedSubrepos(n)

\* The tree holds no entry whose lstat or load fails.
NoErrors == \A q \in AllPaths : fs[q] \notin {"err", "badfile"}

\* C14: after NewRepo(root) completes without load or traversal errors, every
\* non-hidden .yaml file directly under root is in the node's Info or Control
\* map and every non-hidden sub-directory directly under root is in its
\* Subrepos map, whatever else (hidden files and directories included) lies
\* beside them.
C14_WalkComplete ==
    (npc[PathR] = "ret" /\ NoErrors) =>
        /\ \A d \in Documents(PathR) :
              \/ \E k \in DOMAIN infoMap[PathR] : infoMap[PathR][k].path = d
              \/ \E k \in DOMAIN controlMap[PathR] : controlMap[PathR][k].path = d
        /\ \A d \in Subdirectories(PathR) :
              \E k \in DOMAIN subMap[PathR] : subMap[PathR][k] = d

\* The build rooted at c is complete: its walk is over, its barrier is
\* passed and every goroutine it started has finished.
BuildComplete(c) ==
    /\ npc[c] \in {"writing", "done"}
    /\ todo[c] = <<>>
    /\ wgc[c] = 0
    /\ TasksFinished(c)

\* C16: the walk of a node never descends into a non-root directory (no
\* path beneath one is visited by it, no document beneath one is in the
\* parent's Info or Control map); a build rooted at the directory is started
\* instead, and the child is written into the parent's Subrepos map only after
\* the child's own build, its join barrier included, has completed.
C16_SubrepoBoundary ==
    \A n \in AllPaths :
        /\ \A i \in DOMAIN todo[n] : Dir(todo[n][i]) = n
        /\ \A q \in AllPaths :
              (tpc[q] # "none" /\ npc[q] = "none" /\ Dir(q) = n) => npc[n] # "none"
        /\ \A k \in DOMAIN infoMap[n] :
              infoMap[n][k].path # <<>> =>
                  infoMap[n][k].path = n \/ Dir(infoMap[n][k].path) = n
        /\ \A k \in DOMAIN controlMap[n] :
              controlMap[n][k].path # <<>> =>
                  controlMap[n][k].path = n \/ Dir(controlMap[n][k].path) = n
        /\ \A k \in DOMAIN subMap[n] :
              /\ Dir(subMap[n][k]) = n
              /\ fs[subMap[n][k]] = "dir"
              /\ npc[subMap[n][k]] = "done"
              /\ BuildComplete(subMap[n][k])
        /\ (npc[n] = "writing" /\ ~IsTop(n)) => BuildComplete(n)
        /\ \A d \in Subdirectories(n) :
              (npc[n] \in {"wait", "ret", "writing", "done"} /\ Started(d))
                  => npc[d] # "none"

\* The sub-repository s, with its own document c, is attached to the root,
\* whose own maps hold nothing from beneath s.
C16_Witness ==
    /\ npc[PathR] = "ret"
    /\ subMap[PathR] = One(<<115>>, Join(PathR, NameS))
    /\ infoMap[Join(PathR, NameS)] =
          One(<<99>>, [ID |-> <<99>>, path |-> Join(Join(PathR, NameS), NameC)])
    /\ <<99>> \notin DOMAIN infoMap[PathR]

\* C18: writes to a shared map are mutually exclusive: no two goroutines
\* are at the same time inside an assignment to the same map, be it a node's
\* Info, Control or Subrepos map or the map of LoadRepos.
C18_ExclusiveMapWrites ==
    \A t1, t2 \in Tasks :
        (t1 # t2 /\ Writing(t1) /\ Writing(t2)) => TaskMap(t1) # TaskMap(t2)

\* The barrier counters are never negative.
CountersNonNegative == mwg >= 0 /\ \A n \in AllPaths : wgc[n] >= 0

\* C20: the build terminates: under fair scheduling every NewRepo that was
\* called returns and LoadRepos returns, and the barrier counters never go
\* negative.
C20_BuildTerminates ==
    /\ []CountersNonNegative
    /\ <>(/\ mpc = "returned"
          /\ \A n \in AllPaths : npc[n] \notin {"start", "walk", "wait"})

\* Short of the run time ending the process, LoadRepos returns.
ReturnsUnlessFatal == <>(mpc = "returned" \/ fatal)

-----------------------------------------------------------------------------
(* Claims about Repo.Execute, checked under SpecResolve *)

\* The node reached from n by the tokens toks, each matched as a
\* sub-repository and not as a document; the walk stops at the first token
\* that is not.
RECURSIVE Cursor(_, _)
Cursor(n, toks) ==
    IF toks = <<>> THEN n
    ELSE IF Head(toks) \notin DOMAIN infoMap[n] /\ Head(toks) \in DOMAIN subMap[n]
    THEN Cursor(subMap[n][Head(toks)], Tail(toks))
    ELSE n

\* The listing of node n: its sub-repository identities in increasing order,
\* then its document identities in increasing order.
ExpectedListing(n) ==
    LET subs == SortedKeys({asKey(PathString(subMap[n][k])) : k \in DOMAIN subMap[n]})
        docs == SortedKeys({infoMap[n][k].ID : k \in DOMAIN infoMap[n]})
    IN  [i \in DOMAIN subs |-> [blue |-> TRUE, key |-> subs[i]]]
        \o [i \in DOMAIN docs |-> [blue |-> FALSE, key |-> docs[i]]]

\* C12: a resolution that ends without reaching a document (no tokens, all
\* tokens spent on descents, or a token matching nothing) prints the listing of
\* the last node reached by the matched tokens; an unmatched token leaves the
\* cursor on the node where the mismatch occurred.
C12_ListingOfFinalCursor ==
    (rpc = "done" /\ invoked = <<>>) =>
        listing = ExpectedListing(Cursor(PathR, rargs))

\* Token i is the first to match a document: the tokens before it each name
\* a sub-repository, and no document, of the node reached so far.
DocumentAt(i) ==
    /\ \A j \in 1..(i - 1) :
          LET n == Cursor(PathR, SubSeq(rargs, 1, j - 1))
          IN  rargs[j] \notin DOMAIN infoMap[n] /\ rargs[j] \in DOMAIN subMap[n]
    /\ rargs[i] \in DOMAIN infoMap[Cursor(PathR, SubSeq(rargs, 1, i - 1))]

\* C13: tokens are processed left to right and a document match takes
\* precedence over a sub-repository match: at the first token that matches a
\* document of the current node that document is invoked exactly once, descent
\* stops and no listing is printed; the cursor moves to a child only on a token
\* that matches no document and names a sub-repository; without a document
\* match nothing is invoked.
C13_DocumentBeforeSubrepo ==
    rpc = "done" =>
        IF \E i \in DOMAIN rargs : DocumentAt(i)
        THEN LET i == CHOOSE j \in DOMAIN rargs : DocumentAt(j)
                 n == Cursor(PathR, SubSeq(rargs, 1, i - 1))
             IN  /\ invoked = <<infoMap[n][rargs[i]]>>
                 /\ listing = <<>>
        ELSE invoked = <<>>

\* The token "s" names both the document s.yaml and the sub-repository s of
\* the root: the document is invoked, nothing is listed.
C13_Witness ==
    /\ rpc = "done"
    /\ rargs = <<<<115>>>>
    /\ <<115>> \in DOMAIN infoMap[PathR]
    /\ <<115>> \in DOMAIN subMap[PathR]
    /\ invoked = <<[ID |-> <<115>>, path |-> Join(PathR, NameSY)]>>
    /\ listing = <<>>

\* The file name of a document starts with an underscore.
ControlName(p) == NameOf(p)[1] = 95

\* loadInfo(p) files its document in this step.
Files(p) == tpc[p] = "writing" /\ tpc'[p] = "done"

\* C15: in every node a document whose identity begins with "_" is filed only
\* in the Control map and every other document only in the Info map, so that
\* Keys() never offers and token lookup never matches a control document.
C15_ControlSeparation ==
    /\ [](\A n \in AllPaths :
            /\ \A k \in DOMAIN infoMap[n] :
                  /\ ~HasPrefix(k, StrUnderscore)
                  /\ ~HasPrefix(infoMap[n][k].ID, StrUnderscore)
                  /\ infoMap[n][k].path # <<>> => ~ControlName(infoMap[n][k].path)
            /\ \A k \in DOMAIN controlMap[n] :
                  controlMap[n][k].path # <<>> =>
                      /\ ControlName(controlMap[n][k].path)
                      /\ HasPrefix(k, StrUnderscore))
    /\ [](\A i \in DOMAIN listing :
            ~listing[i].blue => ~HasPrefix(listing[i].key, StrUnderscore))
    /\ [](\A i \in DOMAIN invoked :
            /\ ~HasPrefix(invoked[i].ID, StrUnderscore)
            /\ \A n \in AllPaths : \A k \in DOMAIN controlMap[n] :
                  controlMap[n][k].path # <<>> => invoked[i] # controlMap[n][k])
    /\ [][\A n \in AllPaths :
            /\ infoMap'[n] # infoMap[n] =>
                  \E p \in AllPaths : Files(p) /\ ~ControlName(p)
            /\ controlMap'[n] # controlMap[n] =>
                  \E p \in AllPaths : Files(p) /\ ControlName(p)]_vars

\* The root holds the control document _repo and the document a; the token
\* "_repo" matched nothing, and no listing line offers it.
C15_Witness ==
    /\ rpc = "done"
    /\ rargs = <<<<95, 114, 101, 112, 111>>>>
    /\ <<95, 114, 101, 112, 111>> \in DOMAIN controlMap[PathR]
    /\ <<97>> \in DOMAIN infoMap[PathR]
    /\ invoked = <<>>

=============================================================================
